---- MODULE Spec2Model ----
(***************************************************************************)
(* PDF2Gray (src/pdf2grey/pdf_to_grayscale_gui.py): the two-tier converter *)
(* (PDFConverter) and the batch runner of PDF2GrayApp with the user        *)
(* operations that interleave with its worker thread.                      *)
(***************************************************************************)
EXTENDS Integers, Sequences, FiniteSets, TLC

\* ---------------------------------------------------------------- bounds
\* Largest page count of a document handed to the fallback renderer.
MaxPages == 3
\* Most files picked in one add_files dialog.
MaxAdd == 1
\* Most worklist edits followed from one start to the next.
MaxEdits == 1

\* ------------------------------------------------------------- constants
\* item["status"] values (the source uses Chinese literals).
Pending == "Pending"
Processing == "Processing"
Success == "Success"
Failed == "Failed"
Skipped == "Skipped"
Statuses == {Pending, Processing, Success, Failed, Skipped}
Terminal == {Success, Failed, Skipped}
NoStatus == "none"

\* Tk widget states of btn_start and btn_cancel.
NORMAL == "normal"
DISABLED == "disabled"

\* Messages returned by the converter.
MsgGsOk == "Ghostscript ok"
MsgMuOk == "PyMuPDF ok"
MsgMuFail == "PyMuPDF failed"
MsgNoBackend == "no backend"
MsgNoFitz == "PyMuPDF not installed"
MsgExc == "exception text"

DEFAULT_SUFFIX == "_gray"
Suffixes == {DEFAULT_SUFFIX}

\* The message boxes of start_convert: none open, the warning for an empty
\* list, the error for an output directory that cannot be created.
NoBox == "none"
BoxEmpty == "empty"
BoxMkdir == "mkdir"

\* Input files the dialogs can deliver: a directory and a stem each.
Dirs == {"d1", "d2"}
Stems == {"a", "b"}
Paths == {[dir |-> "d1", stem |-> "a"], [dir |-> "d1", stem |-> "b"],
          [dir |-> "d2", stem |-> "a"]}
\* A file that is not an existing regular *.pdf file.
NotPdf == [dir |-> "d1", stem |-> "notpdf"]
NoPath == [dir |-> "", stem |-> ""]
\* Another name of the file d1/a, as a dialog may deliver it (d1/./a).
AliasA == [dir |-> "d1/.", stem |-> "a"]
\* What the dialogs deliver: names of the files, resolved or not.
RawFiles == Paths \cup {AliasA, NotPdf}
\* Path.resolve: the one absolute, normalised path of the file.
resolve(f) == IF f = AliasA THEN [dir |-> "d1", stem |-> "a"] ELSE f
\* Output files of the output directory: <input-stem><suffix>.pdf
Outputs == [stem : Stems, suffix : Suffixes]
NoOut == [stem |-> "", suffix |-> ""]

\* ---------------------------------------------------- converter (pure part)
\* PDFConverter.convert_with_gs: the subprocess either exits 0 or raises
\* (check=True turns a nonzero exit into CalledProcessError).
convert_with_gs(gsRuns) ==
  IF gsRuns THEN [ok |-> TRUE, msg |-> ""] ELSE [ok |-> FALSE, msg |-> MsgExc]

\* Mutant: a page that fails to render ends the page loop.
RECURSIVE render_pages_break(_, _, _, _)
render_pages_break(i, n, bad, out) ==
  IF i > n THEN out
  ELSE IF i \in bad THEN out
  ELSE render_pages_break(i + 1, n, bad, Append(out, i))

\* The page loop of convert_with_pymupdf: pages i..n of the source document,
\* bad = the pages whose rendering raises; a raising page is logged and left
\* out, every other page is appended to out_doc.
RECURSIVE render_pages(_, _, _, _)
render_pages(i, n, bad, out) ==
  IF i > n THEN out
  ELSE IF i \in bad THEN render_pages(i + 1, n, bad, out)
  ELSE render_pages(i + 1, n, bad, Append(out, i))

\* PDFConverter.convert_with_pymupdf. saved is the page list of the written
\* output document (<<>> with written = FALSE when nothing was saved).
convert_with_pymupdf(hasFitz, openOk, n, bad, saveOk) ==
  IF ~hasFitz THEN
    [ok |-> FALSE, msg |-> MsgNoFitz, written |-> FALSE, saved |-> <<>>]
  ELSE IF ~openOk THEN
    [ok |-> FALSE, msg |-> MsgExc, written |-> FALSE, saved |-> <<>>]
  ELSE IF ~saveOk THEN
    [ok |-> FALSE, msg |-> MsgExc, written |-> FALSE, saved |-> <<>>]
  ELSE
    [ok |-> TRUE, msg |-> "", written |-> TRUE,
     saved |-> render_pages(1, n, bad, <<>>)]

\* Mutant: the early return after a successful Ghostscript run is missing,
\* so the fallback runs as well and decides the result.
convert_always_fallback(hasGs, hasFitz, gsRuns, openOk, n, bad, saveOk) ==
  LET gs == convert_with_gs(gsRuns)
      mu == convert_with_pymupdf(hasFitz, openOk, n, bad, saveOk)
  IN IF hasFitz THEN
       [ok |-> mu.ok, msg |-> IF mu.ok THEN MsgMuOk ELSE MsgMuFail,
        gs_calls |-> IF hasGs THEN 1 ELSE 0, mu_calls |-> 1,
        calls |-> IF hasGs THEN <<"gs", "mu">> ELSE <<"mu">>,
        written |-> mu.written \/ (hasGs /\ gs.ok), saved |-> mu.saved]
     ELSE
       [ok |-> hasGs /\ gs.ok,
        msg |-> IF hasGs /\ gs.ok THEN MsgGsOk ELSE MsgNoBackend,
        gs_calls |-> IF hasGs THEN 1 ELSE 0, mu_calls |-> 0,
        calls |-> IF hasGs THEN <<"gs">> ELSE <<>>,
        written |-> hasGs /\ gs.ok, saved |-> <<>>]

\* Mutant: without a fallback backend the converter reports the failure of
\* the backend it tried instead of the "no backend" message.
convert_wrong_message(hasGs, hasFitz, gsRuns, openOk, n, bad, saveOk) ==
  LET gs == convert_with_gs(gsRuns)
      mu == convert_with_pymupdf(hasFitz, openOk, n, bad, saveOk)
  IN IF hasGs /\ gs.ok THEN
       [ok |-> TRUE, msg |-> MsgGsOk, gs_calls |-> 1, mu_calls |-> 0,
        calls |-> <<"gs">>, written |-> TRUE, saved |-> <<>>]
     ELSE
       [ok |-> mu.ok, msg |-> IF mu.ok THEN MsgMuOk ELSE MsgMuFail,
        gs_calls |-> IF hasGs THEN 1 ELSE 0, mu_calls |-> 1,
        calls |-> IF hasGs THEN <<"gs", "mu">> ELSE <<"mu">>,
        written |-> mu.written, saved |-> mu.saved]

\* Mutant: the fallback is tried only when Ghostscript is missing; a failed
\* Ghostscript run is the result.
convert_no_fallback(hasGs, hasFitz, gsRuns, openOk, n, bad, saveOk) ==
  LET gs == convert_with_gs(gsRuns)
      mu == convert_with_pymupdf(hasFitz, openOk, n, bad, saveOk)
  IN IF hasGs THEN
       [ok |-> gs.ok, msg |-> IF gs.ok THEN MsgGsOk ELSE MsgMuFail,
        gs_calls |-> 1, mu_calls |-> 0,
        calls |-> <<"gs">>, written |-> gs.ok, saved |-> <<>>]
     ELSE IF hasFitz THEN
       [ok |-> mu.ok, msg |-> IF mu.ok THEN MsgMuOk ELSE MsgMuFail,
        gs_calls |-> 0, mu_calls |-> 1,
        calls |-> <<"mu">>, written |-> mu.written, saved |-> mu.saved]
     ELSE
       [ok |-> FALSE, msg |-> MsgNoBackend, gs_calls |-> 0, mu_calls |-> 0,
        calls |-> <<>>, written |-> FALSE, saved |-> <<>>]

\* PDFConverter.convert: Ghostscript first when detected, PyMuPDF when
\* Ghostscript is missing or failed, "no backend" when PyMuPDF is missing too.
\* gs_calls / mu_calls count the calls of convert_with_gs / _pymupdf, calls
\* lists them in the order they were made.
convert(hasGs, hasFitz, gsRuns, openOk, n, bad, saveOk) ==
  LET gs == convert_with_gs(gsRuns)
      mu == convert_with_pymupdf(hasFitz, openOk, n, bad, saveOk)
  IN IF hasGs /\ gs.ok THEN
       [ok |-> TRUE, msg |-> MsgGsOk, gs_calls |-> 1, mu_calls |-> 0,
        calls |-> <<"gs">>, written |-> TRUE, saved |-> <<>>]
     ELSE IF hasFitz THEN
       [ok |-> mu.ok, msg |-> IF mu.ok THEN MsgMuOk ELSE MsgMuFail,
        gs_calls |-> IF hasGs THEN 1 ELSE 0, mu_calls |-> 1,
        calls |-> IF hasGs THEN <<"gs", "mu">> ELSE <<"mu">>,
        written |-> mu.written, saved |-> mu.saved]
     ELSE
       [ok |-> FALSE, msg |-> MsgNoBackend,
        gs_calls |-> IF hasGs THEN 1 ELSE 0, mu_calls |-> 0,
        calls |-> IF hasGs THEN <<"gs">> ELSE <<>>,
        written |-> FALSE, saved |-> <<>>]

\* ------------------------------------------------------------------ state
VARIABLES
  has_gs,        \* PDFConverter.has_gs: Ghostscript was detected at construction
  fitz,          \* the module global fitz is not None (PyMuPDF imported)
  cphase,        \* converter alone: "new", "raised" (__init__ raised), "ready", "returned"
  c_in,          \* converter alone: the inputs of the convert call
  c_res,         \* converter alone: what convert returned
  file_list,     \* self.file_list: the item dicts [path, status] of the list object
                 \* the attribute refers to
  it_alias,      \* run_all's list iterator walks the object self.file_list refers to
  it_list,       \* the paths of the list object run_all's iterator walks, once
                 \* self.file_list was bound to another object
  it_pos,        \* the iterator's position
  idx,           \* run_all's loop variable idx
  item,          \* item["path"] of run_all's loop variable item
  pc,            \* where the worker thread is
  ret,           \* the status task_wrapper returned
  out_pdf,       \* task_wrapper's out_pdf
  cancel_flag,   \* self.cancel_flag
  btn_start,     \* state of the start button
  btn_cancel,    \* state of the cancel button
  tail,          \* a finished run_all has yet to disable btn_cancel
  var_suffix,    \* self.var_suffix
  var_overwrite, \* self.var_overwrite
  cfg_overwrite, \* self.config["overwrite"]: the checkbox as start_convert saved it
  msgbox,        \* the modal message box start_convert has open
  success,       \* self.success
  failed,        \* self.failed
  skipped,       \* self.skipped
  total,         \* self.total
  existing,      \* the output files that exist in the output directory
  out_dir_exists,\* the output directory exists
  edits,         \* worklist edits made since the last start
  summaries      \* final summaries logged since the last start

convVars == <<has_gs, fitz, cphase, c_in, c_res>>
iterVars == <<it_alias, it_list, it_pos>>
workVars == <<idx, item, pc, ret, out_pdf>>
ctrlVars == <<cancel_flag, btn_start, btn_cancel, tail>>
optVars == <<var_suffix, var_overwrite, cfg_overwrite>>
tallyVars == <<success, failed, skipped, total>>
fsVars == <<existing, out_dir_exists>>
histVars == <<edits, summaries>>
vars == <<convVars, file_list, iterVars, workVars, ctrlVars, optVars, msgbox,
          tallyVars, fsVars, histVars>>

NoIn == [gsRuns |-> FALSE, openOk |-> FALSE, n |-> 0, bad |-> {}, saveOk |-> FALSE]
NoRes == [ok |-> FALSE, msg |-> "", gs_calls |-> 0, mu_calls |-> 0, calls |-> <<>>,
          written |-> FALSE, saved |-> <<>>]

\* The paths on the worklist, in order, and the status shown for a path.
PathsOf(l) == [k \in 1..Len(l) |-> l[k].path]
Listed == {file_list[k].path : k \in 1..Len(file_list)}
StatusIn(l, p) == l[CHOOSE k \in 1..Len(l) : l[k].path = p].status

\* The paths of the list run_all's iterator walks.
ItList == IF it_alias THEN PathsOf(file_list) ELSE it_list

\* A worker thread exists and has not ended.
Running == pc \in {"begin", "next", "mark", "task", "exists", "converting",
                   "update", "summary"}

\* ------------------------------------------------------------------- Init
\* PDF2GrayApp.__init__: empty worklist, default options (load_config), the
\* start button enabled and the cancel button disabled (setup_gui). The
\* converter was constructed, so at least one backend is there; the
\* application is followed in an installation that has both.
AppInit ==
  /\ file_list = <<>>
  /\ it_alias = FALSE /\ it_list = <<>> /\ it_pos = 0
  /\ idx = 0 /\ item = NoPath /\ pc = "idle" /\ ret = NoStatus /\ out_pdf = NoOut
  /\ cancel_flag = FALSE /\ btn_start = NORMAL /\ btn_cancel = DISABLED
  /\ tail = FALSE
  /\ var_suffix = DEFAULT_SUFFIX /\ var_overwrite = FALSE
  /\ cfg_overwrite = FALSE /\ msgbox = NoBox
  /\ success = 0 /\ failed = 0 /\ skipped = 0 /\ total = 0
  /\ edits = 0 /\ summaries = 0

Init ==
  /\ AppInit
  /\ has_gs = TRUE /\ fitz = TRUE
  /\ cphase = "ready" /\ c_in = NoIn /\ c_res = NoRes
  /\ out_dir_exists \in BOOLEAN
  /\ existing \in SUBSET {[stem |-> "a", suffix |-> DEFAULT_SUFFIX]}
  /\ (~out_dir_exists => existing = {})

\* ------------------------------------------------------- worklist editing
\* Mutant: a file is appended whether or not its path is on the list.
add_file_no_dup_check(l, f) ==
  LET r == resolve(f)
  IN IF r = NotPdf THEN l
     ELSE Append(l, [path |-> r, status |-> Pending])

\* PDF2GrayApp._add_file: the name is resolved; a file that is no existing
\* *.pdf file, or whose resolved path is on the list already, is ignored;
\* otherwise a new item dict with status Pending is appended in place.
add_file(l, f) ==
  LET r == resolve(f)
  IN IF r = NotPdf THEN l
     ELSE IF \E k \in 1..Len(l) : l[k].path = r THEN l
     ELSE Append(l, [path |-> r, status |-> Pending])

\* The loops "for f in files: self._add_file(Path(f))".
RECURSIVE add_all(_, _)
add_all(l, fs) ==
  IF fs = <<>> THEN l ELSE add_all(add_file(l, Head(fs)), Tail(fs))

\* The selections of the file dialog: up to MaxAdd different files.
FileSeqs ==
  {fs \in UNION {[1..k -> RawFiles] : k \in 1..MaxAdd} :
     \A i, j \in DOMAIN fs : i # j => fs[i] # fs[j]}

\* The *.pdf files below a folder, in the order rglob delivers them.
FolderSeqs(d) ==
  LET S == {p \in Paths : p.dir = d}
  IN {fs \in [1..Cardinality(S) -> S] : \A i, j \in DOMAIN fs : i # j => fs[i] # fs[j]}

\* Worklist edits are counted from the first start on, and at most MaxEdits
\* of them are followed from one start to the next.
count_edit ==
  /\ pc # "idle" => edits < MaxEdits
  /\ edits' = IF pc = "idle" THEN edits ELSE edits + 1
  /\ UNCHANGED summaries

\* PDF2GrayApp.add_files with the files the dialog returned.
add_files ==
  /\ msgbox = NoBox
  /\ count_edit
  /\ \E fs \in FileSeqs : file_list' = add_all(file_list, fs)
  /\ UNCHANGED <<convVars, iterVars, workVars, ctrlVars, optVars, msgbox, tallyVars,
                 fsVars>>

\* PDF2GrayApp.add_folder with the folder the dialog returned.
add_folder ==
  /\ msgbox = NoBox
  /\ count_edit
  /\ \E d \in Dirs : \E fs \in FolderSeqs(d) : file_list' = add_all(file_list, fs)
  /\ UNCHANGED <<convVars, iterVars, workVars, ctrlVars, optVars, msgbox, tallyVars,
                 fsVars>>

\* PDF2GrayApp.remove_selected: a new list object without the selected paths
\* is bound to self.file_list; a running iterator keeps the old object.
remove_selected ==
  /\ msgbox = NoBox
  /\ count_edit
  /\ \E sel \in (SUBSET Listed) \ {{}} :
       file_list' = SelectSeq(file_list, LAMBDA it : it.path \notin sel)
  /\ IF it_alias
       THEN it_alias' = FALSE /\ it_list' = PathsOf(file_list) /\ UNCHANGED it_pos
       ELSE UNCHANGED iterVars
  /\ UNCHANGED <<convVars, workVars, ctrlVars, optVars, msgbox, tallyVars, fsVars>>

\* PDF2GrayApp.clear_list: the list object is emptied in place.
clear_list ==
  /\ msgbox = NoBox
  /\ count_edit
  /\ file_list' = <<>>
  /\ UNCHANGED <<convVars, iterVars, workVars, ctrlVars, optVars, msgbox, tallyVars,
                 fsVars>>

\* PDF2GrayApp.choose_output_dir with a directory that is not there (any
\* more) when start_convert looks for it. A run keeps the directory it was
\* started with (out_dir is an argument of _run_batch), so the change is
\* followed between runs.
choose_output_dir ==
  /\ msgbox = NoBox
  /\ ~Running
  /\ out_dir_exists
  /\ out_dir_exists' = FALSE
  /\ existing' = {}
  /\ UNCHANGED <<convVars, file_list, iterVars, workVars, ctrlVars, optVars,
                 msgbox, tallyVars, histVars>>

\* The overwrite checkbox (var_overwrite).
toggle_overwrite ==
  /\ msgbox = NoBox
  /\ var_overwrite' = ~var_overwrite
  /\ UNCHANGED <<convVars, file_list, iterVars, workVars, ctrlVars, var_suffix,
                 cfg_overwrite, msgbox, tallyVars, fsVars, histVars>>

\* ------------------------------------------------------------ start, cancel
\* Everything start_convert leaves alone when it returns from a message box.
startFrame == <<convVars, file_list, iterVars, workVars, ctrlVars, optVars,
                tallyVars, fsVars, histVars>>

\* Mutant: the run state is reset before the output directory is made.
start_convert_reset_first ==
  /\ msgbox = NoBox
  /\ btn_start = NORMAL
  /\ \/ /\ file_list = <<>>
        /\ msgbox' = BoxEmpty
        /\ UNCHANGED startFrame
     \/ /\ file_list # <<>>
        /\ ~out_dir_exists
        /\ msgbox' = BoxMkdir
        /\ cancel_flag' = FALSE
        /\ btn_start' = DISABLED
        /\ btn_cancel' = NORMAL
        /\ UNCHANGED <<convVars, file_list, iterVars, workVars, tail, optVars,
                       tallyVars, fsVars, histVars>>
     \/ /\ file_list # <<>>
        /\ out_dir_exists' = TRUE
        /\ cfg_overwrite' = var_overwrite
        /\ cancel_flag' = FALSE
        /\ btn_start' = DISABLED
        /\ btn_cancel' = NORMAL
        /\ file_list' = [k \in 1..Len(file_list) |->
                           [file_list[k] EXCEPT !.status = Pending]]
        /\ success' = 0 /\ failed' = 0 /\ skipped' = 0
        /\ total' = Len(file_list)
        /\ pc' = "begin"
        /\ edits' = 0
        /\ summaries' = 0
        /\ UNCHANGED <<convVars, iterVars, idx, item, ret, out_pdf, tail,
                       var_suffix, var_overwrite, msgbox, existing>>

\* Mutant: the cancel flag of the last run is not cleared.
start_convert_keep_flag ==
  /\ msgbox = NoBox
  /\ btn_start = NORMAL
  /\ \/ /\ file_list = <<>>
        /\ msgbox' = BoxEmpty
        /\ UNCHANGED startFrame
     \/ /\ file_list # <<>>
        /\ ~out_dir_exists
        /\ msgbox' = BoxMkdir
        /\ UNCHANGED startFrame
     \/ /\ file_list # <<>>
        /\ out_dir_exists' = TRUE
        /\ cfg_overwrite' = var_overwrite
        /\ cancel_flag' = cancel_flag
        /\ btn_start' = DISABLED
        /\ btn_cancel' = NORMAL
        /\ file_list' = [k \in 1..Len(file_list) |->
                           [file_list[k] EXCEPT !.status = Pending]]
        /\ success' = 0 /\ failed' = 0 /\ skipped' = 0
        /\ total' = Len(file_list)
        /\ pc' = "begin"
        /\ edits' = 0
        /\ summaries' = 0
        /\ UNCHANGED <<convVars, iterVars, idx, item, ret, out_pdf, tail,
                       var_suffix, var_overwrite, msgbox, existing>>

\* Mutant: the start button is left enabled when a run starts.
start_convert_no_disable ==
  /\ msgbox = NoBox
  /\ btn_start = NORMAL
  /\ \/ /\ file_list = <<>>
        /\ msgbox' = BoxEmpty
        /\ UNCHANGED startFrame
     \/ /\ file_list # <<>>
        /\ ~out_dir_exists
        /\ msgbox' = BoxMkdir
        /\ UNCHANGED startFrame
     \/ /\ file_list # <<>>
        /\ out_dir_exists' = TRUE
        /\ cfg_overwrite' = var_overwrite
        /\ cancel_flag' = FALSE
        /\ btn_start' = btn_start
        /\ btn_cancel' = NORMAL
        /\ file_list' = [k \in 1..Len(file_list) |->
                           [file_list[k] EXCEPT !.status = Pending]]
        /\ success' = 0 /\ failed' = 0 /\ skipped' = 0
        /\ total' = Len(file_list)
        /\ pc' = "begin"
        /\ edits' = 0
        /\ summaries' = 0
        /\ UNCHANGED <<convVars, iterVars, idx, item, ret, out_pdf, tail,
                       var_suffix, var_overwrite, msgbox, existing>>

\* PDF2GrayApp.start_convert (the start button's command): the warning for
\* an empty list, the error when the output directory is missing and mkdir
\* raises, or the start of a run: the options are saved to self.config, the
\* flag, the buttons, the statuses and the counters are reset and the worker
\* thread is started.
start_convert ==
  /\ msgbox = NoBox
  /\ btn_start = NORMAL
  /\ \/ /\ file_list = <<>>
        /\ msgbox' = BoxEmpty
        /\ UNCHANGED startFrame
     \/ /\ file_list # <<>>
        /\ ~out_dir_exists
        /\ msgbox' = BoxMkdir
        /\ UNCHANGED startFrame
     \/ /\ file_list # <<>>
        /\ out_dir_exists' = TRUE
        /\ cfg_overwrite' = var_overwrite
        /\ cancel_flag' = FALSE
        /\ btn_start' = DISABLED
        /\ btn_cancel' = NORMAL
        /\ file_list' = [k \in 1..Len(file_list) |->
                           [file_list[k] EXCEPT !.status = Pending]]
        /\ success' = 0 /\ failed' = 0 /\ skipped' = 0
        /\ total' = Len(file_list)
        /\ pc' = "begin"
        /\ edits' = 0
        /\ summaries' = 0
        /\ UNCHANGED <<convVars, iterVars, idx, item, ret, out_pdf, tail,
                       var_suffix, var_overwrite, msgbox, existing>>

\* The user closes the message box; start_convert returns.
close_msgbox ==
  /\ msgbox # NoBox
  /\ msgbox' = NoBox
  /\ UNCHANGED startFrame

\* PDF2GrayApp.cancel_convert (the cancel button's command).
cancel_convert ==
  /\ msgbox = NoBox
  /\ btn_cancel = NORMAL
  /\ cancel_flag' = TRUE
  /\ btn_cancel' = DISABLED
  /\ UNCHANGED <<convVars, file_list, iterVars, workVars, btn_start, tail,
                 optVars, msgbox, tallyVars, fsVars, histVars>>

\* ------------------------------------------------------------ worker thread
\* Mutant: a skipped item is not counted.
update_status_skip_uncounted(i, st) ==
  /\ file_list' = [file_list EXCEPT ![i + 1].status = st]
  /\ success' = IF st = Success THEN success + 1 ELSE success
  /\ failed' = IF st = Failed THEN failed + 1 ELSE failed
  /\ UNCHANGED skipped

\* Mutant: the status is written to the first item of the list.
update_status_first_item(i, st) ==
  /\ file_list' = [file_list EXCEPT ![1].status = st]
  /\ success' = IF st = Success THEN success + 1 ELSE success
  /\ failed' = IF st = Failed THEN failed + 1 ELSE failed
  /\ skipped' = IF st = Skipped THEN skipped + 1 ELSE skipped

\* update_status(idx, status) of _run_batch, for an index inside
\* self.file_list: the status of the item at that index and the tally.
update_status(i, st) ==
  /\ file_list' = [file_list EXCEPT ![i + 1].status = st]
  /\ success' = IF st = Success THEN success + 1 ELSE success
  /\ failed' = IF st = Failed THEN failed + 1 ELSE failed
  /\ skipped' = IF st = Skipped THEN skipped + 1 ELSE skipped

\* self.file_list[idx] raises IndexError: nothing catches it in run_all, the
\* worker thread ends without summary and without touching the buttons.
thread_dies ==
  /\ pc' = "dead"
  /\ idx' = 0 /\ item' = NoPath /\ ret' = NoStatus /\ out_pdf' = NoOut
  /\ it_alias' = FALSE /\ it_list' = <<>> /\ it_pos' = 0
  /\ UNCHANGED <<file_list, success, failed, skipped>>

\* run_all: enumerate(self.file_list) creates the iterator.
run_all_begin ==
  /\ pc = "begin"
  /\ it_alias' = TRUE /\ it_list' = <<>> /\ it_pos' = 0
  /\ pc' = "next"
  /\ UNCHANGED <<convVars, file_list, idx, item, ret, out_pdf, ctrlVars, optVars, msgbox,
                 tallyVars, fsVars, histVars>>

\* run_all: the for statement asks the iterator for the next (idx, item).
run_all_next ==
  /\ pc = "next"
  /\ IF it_pos < Len(ItList)
       THEN /\ idx' = it_pos
            /\ item' = ItList[it_pos + 1]
            /\ it_pos' = it_pos + 1
            /\ pc' = "mark"
            /\ UNCHANGED <<it_alias, it_list>>
       ELSE /\ pc' = "summary"
            /\ idx' = 0 /\ item' = NoPath
            /\ it_alias' = FALSE /\ it_list' = <<>> /\ it_pos' = 0
  /\ UNCHANGED <<convVars, file_list, ret, out_pdf, ctrlVars, optVars, msgbox,
                 tallyVars, fsVars, histVars>>

\* Mutant: a cancelled run leaves the loop instead of marking the rest.
run_all_mark_break ==
  /\ pc = "mark"
  /\ IF cancel_flag
       THEN /\ pc' = "summary"
            /\ idx' = 0 /\ item' = NoPath
            /\ it_alias' = FALSE /\ it_list' = <<>> /\ it_pos' = 0
            /\ UNCHANGED <<file_list, success, failed, skipped, ret, out_pdf>>
       ELSE IF idx >= Len(file_list) THEN thread_dies
       ELSE /\ update_status(idx, Processing)
            /\ pc' = "task"
            /\ UNCHANGED <<iterVars, idx, item, ret, out_pdf>>
  /\ UNCHANGED <<convVars, total, ctrlVars, optVars, msgbox, fsVars, histVars>>

\* Mutant: the item is not marked Processing before its task runs.
run_all_mark_no_processing ==
  /\ pc = "mark"
  /\ IF idx >= Len(file_list) THEN thread_dies
     ELSE IF cancel_flag
       THEN /\ update_status(idx, Skipped)
            /\ pc' = "next"
            /\ idx' = 0 /\ item' = NoPath
            /\ UNCHANGED <<iterVars, ret, out_pdf>>
       ELSE /\ pc' = "task"
            /\ UNCHANGED <<file_list, success, failed, skipped, iterVars, idx,
                           item, ret, out_pdf>>
  /\ UNCHANGED <<convVars, total, ctrlVars, optVars, msgbox, fsVars, histVars>>

\* Mutant: the existence check is made before the item is marked, and an
\* item whose output exists with overwrite off is skipped without the mark.
run_all_mark_exists_first ==
  /\ pc = "mark"
  /\ IF idx >= Len(file_list) THEN thread_dies
     ELSE IF \/ cancel_flag
             \/ /\ ~var_overwrite
                /\ [stem |-> item.stem, suffix |-> var_suffix] \in existing
       THEN /\ update_status(idx, Skipped)
            /\ pc' = "next"
            /\ idx' = 0 /\ item' = NoPath
            /\ UNCHANGED <<iterVars, ret, out_pdf>>
       ELSE /\ update_status(idx, Processing)
            /\ pc' = "task"
            /\ UNCHANGED <<iterVars, idx, item, ret, out_pdf>>
  /\ UNCHANGED <<convVars, total, ctrlVars, optVars, msgbox, fsVars, histVars>>

\* run_all: the cancel check of the loop body, then update_status(idx, Skipped)
\* and continue, or update_status(idx, Processing).
run_all_mark ==
  /\ pc = "mark"
  /\ IF idx >= Len(file_list) THEN thread_dies
     ELSE IF cancel_flag
       THEN /\ update_status(idx, Skipped)
            /\ pc' = "next"
            /\ idx' = 0 /\ item' = NoPath
            /\ UNCHANGED <<iterVars, ret, out_pdf>>
       ELSE /\ update_status(idx, Processing)
            /\ pc' = "task"
            /\ UNCHANGED <<iterVars, idx, item, ret, out_pdf>>
  /\ UNCHANGED <<convVars, total, ctrlVars, optVars, msgbox, fsVars, histVars>>

\* task_wrapper: the cancel check at its start.
task_wrapper_cancel ==
  /\ pc = "task"
  /\ IF cancel_flag
       THEN ret' = Skipped /\ pc' = "update"
       ELSE ret' = ret /\ pc' = "exists"
  /\ UNCHANGED <<convVars, file_list, iterVars, idx, item, out_pdf, ctrlVars,
                 optVars, msgbox, tallyVars, fsVars, histVars>>

\* Mutant: the existence check is left out, every item is converted.
task_wrapper_exists_unchecked ==
  /\ pc = "exists"
  /\ out_pdf' = [stem |-> item.stem, suffix |-> var_suffix]
  /\ pc' = "converting"
  /\ UNCHANGED <<convVars, file_list, iterVars, idx, item, ret, ctrlVars,
                 optVars, msgbox, tallyVars, fsVars, histVars>>

\* task_wrapper: out_pdf from the item's stem and the suffix entry, the
\* overwrite/exists check, and the call of self.converter.convert.
task_wrapper_exists ==
  /\ pc = "exists"
  /\ LET out == [stem |-> item.stem, suffix |-> var_suffix]
     IN /\ out_pdf' = out
        /\ IF ~var_overwrite /\ out \in existing
             THEN ret' = Skipped /\ pc' = "update"
             ELSE ret' = ret /\ pc' = "converting"
  /\ UNCHANGED <<convVars, file_list, iterVars, idx, item, ctrlVars, optVars, msgbox,
                 tallyVars, fsVars, histVars>>

\* Mutant: a conversion that ends after the cancel flag was set is reported
\* as skipped.
convert_return_cancelled ==
  /\ pc = "converting"
  /\ \E gsRuns, openOk, raised \in BOOLEAN :
       LET r == convert(has_gs, fitz, gsRuns, openOk, 1, {}, TRUE)
       IN /\ ret' = IF cancel_flag THEN Skipped
                    ELSE IF ~raised /\ r.ok THEN Success ELSE Failed
          /\ existing' = existing \cup {out_pdf}
  /\ pc' = "update"
  /\ UNCHANGED <<convVars, file_list, iterVars, idx, item, out_pdf, ctrlVars,
                 optVars, msgbox, tallyVars, out_dir_exists, histVars>>

\* task_wrapper: self.converter.convert returns (or raises, which the
\* except clause turns into Failed). A failed conversion may leave a file.
convert_return ==
  /\ pc = "converting"
  /\ \E gsRuns, openOk, raised, leftover \in BOOLEAN :
       LET r == convert(has_gs, fitz, gsRuns, openOk, 1, {}, TRUE)
       IN /\ ret' = IF ~raised /\ r.ok THEN Success ELSE Failed
          /\ existing' = IF r.written \/ leftover
                           THEN existing \cup {out_pdf} ELSE existing
  /\ pc' = "update"
  /\ UNCHANGED <<convVars, file_list, iterVars, idx, item, out_pdf, ctrlVars,
                 optVars, msgbox, tallyVars, out_dir_exists, histVars>>

\* Mutant: after a failed item the loop is left.
run_all_update_stop_on_failure ==
  /\ pc = "update"
  /\ IF idx >= Len(file_list) THEN thread_dies
     ELSE /\ update_status(idx, ret)
          /\ IF ret = Failed
               THEN /\ pc' = "summary"
                    /\ it_alias' = FALSE /\ it_list' = <<>> /\ it_pos' = 0
               ELSE pc' = "next" /\ UNCHANGED iterVars
          /\ idx' = 0 /\ item' = NoPath /\ ret' = NoStatus /\ out_pdf' = NoOut
  /\ UNCHANGED <<convVars, total, ctrlVars, optVars, msgbox, fsVars, histVars>>

\* run_all: update_status(idx, status) with what task_wrapper returned.
run_all_update ==
  /\ pc = "update"
  /\ IF idx >= Len(file_list) THEN thread_dies
     ELSE /\ update_status(idx, ret)
          /\ pc' = "next"
          /\ idx' = 0 /\ item' = NoPath /\ ret' = NoStatus /\ out_pdf' = NoOut
          /\ UNCHANGED iterVars
  /\ UNCHANGED <<convVars, total, ctrlVars, optVars, msgbox, fsVars, histVars>>

\* run_all after the loop: the final summary is logged and the start button
\* is enabled again.
run_all_summary ==
  /\ pc = "summary"
  /\ summaries' = summaries + 1
  /\ btn_start' = NORMAL
  /\ tail' = TRUE
  /\ pc' = "done"
  /\ UNCHANGED <<convVars, file_list, iterVars, idx, item, ret, out_pdf,
                 cancel_flag, btn_cancel, optVars, msgbox, tallyVars, fsVars, edits>>

\* run_all's last statement: the cancel button is disabled.
run_all_tail ==
  /\ tail
  /\ btn_cancel' = DISABLED
  /\ tail' = FALSE
  /\ UNCHANGED <<convVars, file_list, iterVars, workVars, cancel_flag, btn_start,
                 optVars, msgbox, tallyVars, fsVars, histVars>>

Worker ==
  \/ run_all_begin
  \/ run_all_next
  \/ run_all_mark
  \/ task_wrapper_cancel
  \/ task_wrapper_exists
  \/ convert_return
  \/ run_all_update
  \/ run_all_summary
  \/ run_all_tail

\* ---------------------------------------------------------- specifications
\* The application: the worker thread and every user operation, interleaved.
Next ==
  \/ Worker
  \/ start_convert
  \/ close_msgbox
  \/ cancel_convert
  \/ add_files
  \/ add_folder
  \/ remove_selected
  \/ clear_list
  \/ toggle_overwrite
  \/ choose_output_dir

Spec == Init /\ [][Next]_vars

\* A batch run whose worklist is edited between runs only: during a run the
\* user cancels and changes options.
NextBatch ==
  \/ Worker
  \/ start_convert
  \/ close_msgbox
  \/ cancel_convert
  \/ toggle_overwrite
  \/ choose_output_dir
  \/ (~Running /\ add_files)
  \/ (~Running /\ add_folder)
  \/ (~Running /\ remove_selected)
  \/ (~Running /\ clear_list)

SpecBatch == Init /\ [][NextBatch]_vars

\* The worker thread is scheduled as long as it has a step to take.
FairBatch == SpecBatch /\ WF_vars(Worker)

\* The application with a worker thread that is scheduled as long as it has
\* a step to take; every call of the converter returns.
FairSpec == Spec /\ WF_vars(Worker)

\* The converter alone: construction on a machine with any combination of
\* backends, then one call of convert with any outcome of the tools.
InitConv ==
  /\ AppInit
  /\ has_gs \in BOOLEAN /\ fitz \in BOOLEAN
  /\ cphase = "new" /\ c_in = NoIn /\ c_res = NoRes
  /\ out_dir_exists = TRUE /\ existing = {}

\* PDFConverter.__init__: RuntimeError when neither backend is there.
PDFConverter_init ==
  /\ cphase = "new"
  /\ cphase' = IF ~has_gs /\ fitz = FALSE THEN "raised" ELSE "ready"
  /\ UNCHANGED <<has_gs, fitz, c_in, c_res, file_list, iterVars, workVars,
                 ctrlVars, optVars, msgbox, tallyVars, fsVars, histVars>>

\* A call of PDFConverter.convert on the constructed converter. gsRuns: the
\* Ghostscript process exits 0; openOk / saveOk: fitz.open of the source and
\* out_doc.save succeed; n pages, of which the pages in bad fail to render.
call_convert ==
  /\ cphase = "ready"
  /\ \E gsRuns, openOk, saveOk \in BOOLEAN, n \in 0..MaxPages :
       \E bad \in SUBSET (1..n) :
         /\ c_in' = [gsRuns |-> gsRuns, openOk |-> openOk, n |-> n, bad |-> bad,
                     saveOk |-> saveOk]
         /\ c_res' = convert(has_gs, fitz, gsRuns, openOk, n, bad, saveOk)
  /\ cphase' = "returned"
  /\ UNCHANGED <<has_gs, fitz, file_list, iterVars, workVars, ctrlVars, optVars, msgbox,
                 tallyVars, fsVars, histVars>>

NextConv ==
  \/ PDFConverter_init
  \/ call_convert

SpecConv == InitConv /\ [][NextConv]_vars

\* ------------------------------------------------------------------ claims
\* What task_wrapper computes as out_pdf for the current item.
CurOut == [stem |-> item.stem, suffix |-> var_suffix]

\* C1: an item whose output file exists when task_wrapper reaches it with
\* overwrite off is returned as Skipped without a call of the converter, its
\* status becomes Skipped, and the worker goes on with the next item.
C1_SkipExisting ==
  /\ [][(pc = "exists" /\ pc' # "exists" /\ ~var_overwrite /\ CurOut \in existing)
          => (pc' = "update" /\ ret' = Skipped)]_vars
  /\ [][(pc = "update" /\ ret = Skipped /\ pc' # "update")
          => (pc' = "next" /\ StatusIn(file_list', item) = Skipped)]_vars

\* C1 witness: a finished, never cancelled run with overwrite off in which one
\* item was skipped for its existing output and another was converted.
C1_Witness ==
  /\ pc = "done" /\ ~cancel_flag /\ ~var_overwrite /\ edits = 0
  /\ Len(file_list) >= 2
  /\ file_list[1].status = Skipped
  /\ file_list[2].status = Success

\* C2: once the cancel flag is set during a run, every listed item that is
\* still Pending ends Skipped; no item turns from Pending to Processing while
\* the flag is set, the converter is only ever called for the item marked
\* Processing, and the flag stays set for the rest of the run.
C2_CancelSkipsPending ==
  /\ \A p \in Paths :
       (Running /\ cancel_flag /\ p \in Listed /\ StatusIn(file_list, p) = Pending)
         ~> (p \in Listed /\ StatusIn(file_list, p) = Skipped)
  /\ [][\A p \in Listed \cap Listed' :
          (StatusIn(file_list, p) = Pending /\ StatusIn(file_list', p) = Processing)
            => ~cancel_flag]_vars
  /\ [][(pc # "converting" /\ pc' = "converting")
          => (item \in Listed /\ StatusIn(file_list, item) = Processing)]_vars
  /\ [][(Running /\ cancel_flag /\ Running') => cancel_flag']_vars

\* C2 witness: after a cancel the second item was skipped although its output
\* does not exist, and the third is still waiting.
C2_Witness ==
  /\ Running /\ cancel_flag
  /\ Len(file_list) = 3
  /\ file_list[1].status \in {Success, Failed}
  /\ file_list[2].status = Skipped
  /\ [stem |-> file_list[2].path.stem, suffix |-> var_suffix] \notin existing
  /\ file_list[3].status = Pending

\* C3 as claimed: an item that is Processing always goes on to the existence
\* check and the converter; task_wrapper never returns Skipped for it because
\* of the cancel flag.
C3_Original ==
  [][(pc = "task" /\ StatusIn(file_list, item) = Processing /\ pc' # "task")
       => pc' = "exists"]_vars

\* C3 amended: an item that has passed task_wrapper's cancel check is not
\* affected by the flag: the existence check or the conversion result decides
\* its status; an item marked Processing that has not passed the check is
\* returned as Skipped exactly when the flag is set.
C3_InFlightNotInterrupted ==
  /\ [][(pc = "task" /\ pc' # "task")
          => IF cancel_flag THEN pc' = "update" /\ ret' = Skipped
             ELSE pc' = "exists"]_vars
  /\ [][(pc = "exists" /\ pc' # "exists")
          => IF ~var_overwrite /\ CurOut \in existing
               THEN pc' = "update" /\ ret' = Skipped
               ELSE pc' = "converting"]_vars
  /\ [][pc = "converting"
          => (pc' = "converting" \/ (pc' = "update" /\ ret' \in {Success, Failed}))]_vars
  /\ [][(pc = "update" /\ pc' # "update")
          => (pc' = "next" /\ StatusIn(file_list', item) = ret)]_vars

\* C3 witness: the flag is set while a conversion is in flight.
C3_Witness ==
  /\ pc = "converting" /\ cancel_flag
  /\ StatusIn(file_list, item) = Processing

\* C4: when the final summary has been logged, success + failed + skipped is
\* self.total, which is the number of items of the list the run was started on.
C4_Tally ==
  /\ pc = "done" => success + failed + skipped = total
  /\ (pc = "done" /\ edits = 0) => total = Len(file_list)

\* C4 witness: a cancelled run that ended with one item of each outcome.
C4_Witness ==
  /\ pc = "done" /\ cancel_flag
  /\ success = 1 /\ failed = 1 /\ skipped = 1

\* C5: a call of convert in which Ghostscript is there and exits 0 returns
\* success and makes no call of convert_with_pymupdf.
C5_NoFallbackAfterSuccess ==
  (cphase = "returned" /\ has_gs /\ c_in.gsRuns)
    => (c_res.ok /\ c_res.msg = MsgGsOk /\ c_res.gs_calls = 1 /\ c_res.mu_calls = 0)

\* C5 witness: such a call on a machine that has the fallback as well.
C5_Witness ==
  cphase = "returned" /\ has_gs /\ fitz /\ c_in.gsRuns /\ c_res.ok

\* The result (False, "no backend") as a returned value.
NoBackendResult(r) == ~r.ok /\ r.msg = MsgNoBackend /\ r.mu_calls = 0

\* C6 as claimed: without a working primary tool and without the fallback the
\* result is the returned value (False, "no backend") for every combination
\* of backends, the one with neither included: nothing is raised.
C6_Original ==
  /\ (cphase = "returned" /\ ~(has_gs /\ c_in.gsRuns) /\ ~fitz) => NoBackendResult(c_res)
  /\ (~has_gs /\ ~fitz) => cphase # "raised"

\* C6 amended: every call of convert without a working primary tool and
\* without the fallback returns (False, "no backend"); with neither backend
\* the constructor raises and no call of convert is ever made.
C6_NoBackend ==
  /\ (cphase = "returned" /\ ~(has_gs /\ c_in.gsRuns) /\ ~fitz) => NoBackendResult(c_res)
  /\ (~has_gs /\ ~fitz /\ cphase # "new") => cphase = "raised"

\* C6 witness: Ghostscript is there and fails, PyMuPDF is not installed.
C6_Witness ==
  /\ cphase = "returned" /\ has_gs /\ ~fitz /\ ~c_in.gsRuns
  /\ NoBackendResult(c_res) /\ c_res.gs_calls = 1

\* C7: the worker thread never ends on a failed item: after a Failed result
\* the item is Failed, the iterator is untouched and the loop asks it for the
\* next item; when the summary is logged every item has a terminal status.
C7_FailureIsolated ==
  /\ [](pc # "dead")
  /\ []((pc = "done" /\ edits = 0)
          => \A k \in 1..Len(file_list) : file_list[k].status \in Terminal)
  /\ [][(pc = "update" /\ ret = Failed /\ pc' # "update")
          => /\ pc' = "next"
             /\ StatusIn(file_list', item) = Failed
             /\ <<it_alias, it_list, it_pos>>' = <<it_alias, it_list, it_pos>>]_vars
  /\ [][(pc = "converting" /\ pc' # "converting") => pc' = "update"]_vars

\* C7 witness: a run whose first item failed and whose second item succeeded.
C7_Witness ==
  /\ pc = "done" /\ edits = 0
  /\ Len(file_list) >= 2
  /\ file_list[1].status = Failed
  /\ file_list[2].status = Success

\* A step of start_convert that starts a run.
StartStep == btn_start = NORMAL /\ btn_start' = DISABLED

\* C8 as claimed: while a worker runs, a listed item's status changes only
\* from Pending to Processing or from Processing to a terminal status.
C8_Original ==
  [][(Running /\ ~StartStep) =>
       \A p \in Listed \cap Listed' :
         LET a == StatusIn(file_list, p)
             b == StatusIn(file_list', p)
         IN a # b => \/ (a = Pending /\ b = Processing)
                     \/ (a = Processing /\ b \in Terminal)]_vars

\* C8 amended: as claimed, and from Pending to Skipped when the cancel flag is
\* set as the item is reached.
C8_Transitions ==
  [][(Running /\ ~StartStep) =>
       \A p \in Listed \cap Listed' :
         LET a == StatusIn(file_list, p)
             b == StatusIn(file_list', p)
         IN a # b => \/ (a = Pending /\ b = Processing /\ ~cancel_flag)
                     \/ (a = Processing /\ b \in Terminal)
                     \/ (a = Pending /\ b = Skipped /\ cancel_flag)]_vars

\* C8 witness: the first item of a cancelled run was skipped although its
\* output does not exist, so it never was Processing.
C8_Witness ==
  /\ Running /\ cancel_flag /\ success = 0 /\ failed = 0 /\ skipped = 1
  /\ Len(file_list) >= 2
  /\ file_list[1].status = Skipped
  /\ existing = {}
  /\ file_list[2].status = Pending

\* C9: in every step that changes the worklist, but a start of a new run, an
\* item with a terminal status that stays on the list keeps that status,
\* whatever the user does to the worklist while the worker runs.
C9_NoRevert ==
  [][(~StartStep /\ file_list' # file_list) =>
       \A i \in DOMAIN file_list : \A j \in DOMAIN file_list' :
         (file_list[i].path = file_list'[j].path /\ file_list[i].status \in Terminal)
           => file_list'[j].status = file_list[i].status]_vars

\* C9 witness: the worker is still in its loop after the user removed items
\* from the list, and an item of the list has a terminal status.
C9_Witness ==
  /\ pc \in {"next", "mark", "task", "exists", "converting", "update"}
  /\ edits >= 1 /\ ~it_alias /\ it_list # PathsOf(file_list)
  /\ \E k \in 1..Len(file_list) : file_list[k].status \in Terminal

\* The pages 1..n without the pages in bad, in page order.
GoodPages(sq, n, bad) ==
  /\ \A i \in 1..Len(sq) - 1 : sq[i] < sq[i + 1]
  /\ {sq[i] : i \in 1..Len(sq)} = (1..n) \ bad

\* C10: a call of convert_with_pymupdf that can open the source and save the
\* output succeeds, and the saved document holds exactly the pages that
\* rendered, in page order, however many pages failed.
C10_FailedPagesSkipped ==
  (cphase = "returned" /\ c_res.mu_calls = 1 /\ c_in.openOk /\ c_in.saveOk)
    => (c_res.ok /\ c_res.written /\ GoodPages(c_res.saved, c_in.n, c_in.bad))

\* C10 witness: Ghostscript missing, three pages, page 2 fails: pages 1 and 3.
C10_Witness ==
  /\ cphase = "returned" /\ ~has_gs /\ fitz
  /\ c_in.n = 3 /\ c_in.bad = {2}
  /\ c_res.ok /\ c_res.saved = <<1, 3>>

\* C11 as claimed: from the start of a run to its end the worklist keeps its
\* membership and order, and statuses and counters change only in steps of
\* the worker thread.
C11_Original ==
  /\ [][Running => PathsOf(file_list') = PathsOf(file_list)]_vars
  /\ [][(Running /\ <<file_list, success, failed, skipped>>'
                      # <<file_list, success, failed, skipped>>) => pc' # pc]_vars

\* C11: what the edit leads to. The user removed an item while the worker
\* was in its loop, and the worker thread died of the IndexError that
\* update_status raised for an index beyond the new list.
C11_Witness ==
  /\ pc = "dead" /\ edits >= 1 /\ btn_start = DISABLED
  /\ Len(file_list) < total

\* C12 as claimed: the overwrite option applied to every item of a run is the
\* value start_convert saved when the run started: the existence check of
\* task_wrapper decides by that value, whatever the checkbox shows by then.
C12_Original ==
  [][(pc = "exists" /\ pc' # "exists")
       => IF ~cfg_overwrite /\ CurOut \in existing
            THEN pc' = "update" /\ ret' = Skipped
            ELSE pc' = "converting"]_vars

\* C12: what the live read leads to. The run was started with overwrite off,
\* the checkbox was ticked during the run, and the converter is now writing
\* over an output file that existed.
C12_Witness ==
  /\ pc = "converting" /\ ~cfg_overwrite /\ var_overwrite
  /\ out_pdf \in existing /\ edits = 0

\* C13: a call of convert in which Ghostscript is missing or fails, on a
\* machine that has PyMuPDF, calls convert_with_pymupdf exactly once, after
\* the Ghostscript attempt if there was one, and returns what the fallback
\* returned: success, or failure with the fallback's message.
C13_TwoTierFallback ==
  (cphase = "returned" /\ fitz /\ ~(has_gs /\ c_in.gsRuns)) =>
    LET mu == convert_with_pymupdf(fitz, c_in.openOk, c_in.n, c_in.bad, c_in.saveOk)
    IN /\ c_res.mu_calls = 1
       /\ c_res.calls = IF has_gs THEN <<"gs", "mu">> ELSE <<"mu">>
       /\ c_res.ok = mu.ok
       /\ c_res.ok = (c_in.openOk /\ c_in.saveOk)
       /\ c_res.msg = IF mu.ok THEN MsgMuOk ELSE MsgMuFail
       /\ c_res.saved = mu.saved

\* C13 witness: Ghostscript is there and fails, the fallback succeeds.
C13_Witness ==
  /\ cphase = "returned" /\ has_gs /\ fitz /\ ~c_in.gsRuns
  /\ c_res.ok /\ c_res.msg = MsgMuOk /\ c_res.calls = <<"gs", "mu">>

\* C14 as claimed: an item whose output exists with overwrite off is never
\* marked Processing: when task_wrapper's existence check returns Skipped for
\* it, the item is still Pending.
C14_Original ==
  [][(pc = "exists" /\ pc' = "update" /\ ret' = Skipped)
       => StatusIn(file_list, item) = Pending]_vars

\* C14 amended: run_all marks every item it reaches without the cancel flag
\* Processing before task_wrapper runs; the existence check then returns
\* Skipped without a call of the converter, and the item goes from Processing
\* to Skipped.
C14_SkippedAfterProcessing ==
  /\ [][(pc = "mark" /\ ~cancel_flag /\ pc' # "mark")
          => (pc' = "task" /\ StatusIn(file_list', item) = Processing)]_vars
  /\ [][(pc = "exists" /\ pc' = "update")
          => /\ ret' = Skipped
             /\ ~var_overwrite /\ CurOut \in existing
             /\ StatusIn(file_list, item) = Processing]_vars
  /\ [][(pc = "exists" /\ pc' = "converting")
          => (var_overwrite \/ CurOut \notin existing)]_vars
  /\ [][(pc = "update" /\ ret = Skipped /\ pc' = "next")
          => /\ StatusIn(file_list, item) = Processing
             /\ StatusIn(file_list', item) = Skipped]_vars

\* C14 witness: the existence check has returned Skipped for an item that is
\* shown as Processing, in a run that was not cancelled.
C14_Witness ==
  /\ pc = "update" /\ ret = Skipped /\ ~cancel_flag /\ ~var_overwrite
  /\ out_pdf \in existing
  /\ StatusIn(file_list, item) = Processing

\* C15 as claimed: in every state of a run, an item that is Processing has
\* only items with a terminal status before it and only Pending items after
\* it; so at most one item is Processing.
C15_Original ==
  Running =>
    \A i \in DOMAIN file_list :
      file_list[i].status = Processing =>
        /\ \A j \in 1..(i - 1) : file_list[j].status \in Terminal
        /\ \A j \in (i + 1)..Len(file_list) : file_list[j].status = Pending

\* C15: what the edit leads to. The converter runs for one file while the
\* list shows another item as Processing, behind an item still Pending.
C15_Witness ==
  /\ pc = "converting" /\ idx >= 1 /\ idx < Len(file_list)
  /\ file_list[idx + 1].path # item
  /\ file_list[idx + 1].status = Processing
  /\ file_list[idx].status = Pending

\* C16 as claimed: every started run reaches the end of run_all, whatever the
\* user does meanwhile: its one summary is logged and the start button is
\* enabled again, then the cancel button is disabled; a run whose list was
\* left alone ends with a terminal status for every item.
C16_Original ==
  /\ (pc = "begin") ~> (pc = "done" /\ summaries = 1 /\ btn_start = NORMAL)
  /\ (pc = "done") ~> (btn_cancel = DISABLED)
  /\ [][(pc = "summary" /\ pc' = "done" /\ edits = 0)
          => \A k \in DOMAIN file_list : file_list[k].status \in Terminal]_vars

\* C16: where such a run ends. update_status raised IndexError after the list
\* had shrunk: the worker thread is gone, no summary was logged, the start
\* button is disabled for good and an item is left Processing.
C16_Witness ==
  /\ pc = "dead" /\ summaries = 0
  /\ btn_start = DISABLED /\ ~tail
  /\ \E k \in DOMAIN file_list : file_list[k].status = Processing

\* C17: the step of start_convert that starts a run leaves every listed item
\* Pending, the three counters zero and the cancel flag clear; until the next
\* start no counter decreases, a counter changes only in a step of the worker
\* thread, and the flag is set only by a click on the enabled cancel button.
C17_StartResets ==
  /\ [][StartStep
          => /\ PathsOf(file_list') = PathsOf(file_list)
             /\ \A k \in DOMAIN file_list' : file_list'[k].status = Pending
             /\ success' = 0 /\ failed' = 0 /\ skipped' = 0
             /\ total' = Len(file_list')
             /\ ~cancel_flag'
             /\ pc' = "begin"]_vars
  /\ [][~StartStep
          => /\ success' >= success /\ failed' >= failed /\ skipped' >= skipped
             /\ success' + failed' + skipped' <= success + failed + skipped + 1
             /\ (<<success, failed, skipped>>' # <<success, failed, skipped>>
                   => (pc \in {"mark", "update"} /\ pc' = "next"))]_vars
  /\ [][(~cancel_flag /\ cancel_flag')
          => (btn_cancel = NORMAL /\ btn_cancel' = DISABLED /\ pc' = pc)]_vars
  /\ [][(cancel_flag /\ ~cancel_flag') => StartStep]_vars

\* C17 witness: a second run has just been started on a list of two items,
\* while the last statement of the first run's worker is still to come.
C17_Witness ==
  /\ pc = "begin" /\ ~cancel_flag /\ btn_cancel = NORMAL
  /\ success = 0 /\ failed = 0 /\ skipped = 0 /\ total = 2
  /\ \A k \in DOMAIN file_list : file_list[k].status = Pending
  /\ tail /\ edits = 0 /\ existing # {}

\* C18: the step of start_convert that ends in the error box for the output
\* directory is taken only when the directory is missing, and changes nothing
\* else: list and statuses, counters, cancel flag, buttons and worker stay as
\* they were, the start button is still enabled, and as long as the box is
\* open nothing but the worker of an earlier run moves.
C18_MkdirFailure ==
  /\ [][(msgbox # BoxMkdir /\ msgbox' = BoxMkdir)
          => /\ ~out_dir_exists /\ ~out_dir_exists'
             /\ file_list # <<>>
             /\ startFrame' = startFrame
             /\ btn_start' = NORMAL
             /\ pc' \in {"idle", "done"}]_vars
  /\ [][(msgbox = BoxMkdir /\ msgbox' = NoBox) => startFrame' = startFrame]_vars
  /\ [][msgbox = BoxMkdir
          => <<file_list, pc, cancel_flag, btn_start, tallyVars, optVars, fsVars>>'
               = <<file_list, pc, cancel_flag, btn_start, tallyVars, optVars, fsVars>>]_vars

\* C18 witness: the error box is open after a cancelled run with results;
\* the directory had been changed to one that cannot be created.
C18_Witness ==
  /\ msgbox = BoxMkdir /\ ~out_dir_exists
  /\ pc = "done" /\ cancel_flag /\ btn_start = NORMAL
  /\ success >= 1 /\ skipped >= 1
  /\ \E k \in DOMAIN file_list : file_list[k].status = Success

\* C19: while a worker thread is in run_all, from its start to the statement
\* that logs the summary, the start button is disabled; a run is started
\* only by a click on the enabled start button while no worker is in run_all,
\* so no second worker is started before the first has logged its summary.
C19_OneRun ==
  /\ [](Running => btn_start = DISABLED)
  /\ [][StartStep => (~Running /\ pc # "dead" /\ Running')]_vars
  /\ [][(pc' = "begin" /\ pc # "begin") => (StartStep /\ pc \in {"idle", "done"})]_vars
  /\ [][(btn_start = DISABLED /\ btn_start' = NORMAL)
          => (pc = "summary" /\ pc' = "done" /\ summaries' = summaries + 1)]_vars

\* C19 witness: a worker is converting in a run after list edits and a cancel,
\* and the start button is disabled.
C19_Witness ==
  /\ pc = "converting" /\ btn_start = DISABLED
  /\ cancel_flag /\ edits >= 1 /\ tail

\* C20: the paths of the worklist are pairwise distinct in every state; a
\* step that makes the list longer appends items whose paths were not on the
\* list, with status Pending, and leaves the items before them alone; so a
\* path that is on the list is never added again.
C20_NoDuplicates ==
  /\ [](\A i, j \in DOMAIN file_list :
          i # j => file_list[i].path # file_list[j].path)
  /\ [](\A i \in DOMAIN file_list : file_list[i].path \in Paths)
  /\ [][Len(file_list') > Len(file_list)
          => /\ SubSeq(file_list', 1, Len(file_list)) = file_list
             /\ \A k \in (Len(file_list) + 1)..Len(file_list') :
                  /\ file_list'[k].path \notin Listed
                  /\ file_list'[k].status = Pending]_vars

\* C20 witness: a file was added while the worker runs: the third item is
\* new and Pending, behind an item of the same stem that is finished.
C20_Witness ==
  /\ Running /\ edits = 1 /\ it_alias
  /\ Len(file_list) = 3
  /\ file_list[1].status \in Terminal
  /\ file_list[1].path = [dir |-> "d1", stem |-> "a"]
  /\ file_list[3].status = Pending
  /\ file_list[3].path = [dir |-> "d2", stem |-> "a"]

====
